---- MODULE Spec2Model ----
(***************************************************************************)
(* DebateAgent of Multi-Agent-Quants (src/agents/debate_agent.py).         *)
(*                                                                         *)
(* A text is a string of characters.  str.lower() and str.upper() map    *)
(* every ASCII letter of the text (the texts of the model are ASCII),       *)
(* `in` is substring search on characters, str.join interleaves the        *)
(* separator.  Confidence values are integers in thousandths (0.5 = 500).  *)
(***************************************************************************)
EXTENDS Integers, Sequences, FiniteSets, TLC

VARIABLES
    pc,                 \* position of the instance's control: idle, generate, check,
                        \* summarize, synthesize, returned, failed, score_build, scored
    call,               \* number of analyze invocations started on the instance
    data,               \* the argument of the current analyze invocation
    market_data,        \* data.get("market_data", {}) of the current invocation
    round_num,          \* loop variable of _conduct_debate (0-based)
    role_idx,           \* index into self.roles of the next persona to generate
    round_results,      \* round-local buffer of _conduct_debate
    debate_results,     \* the transcript (debate_rounds in _conduct_debate)
    mid_term_memory,    \* self.mid_term_memory
    short_term_memory,  \* self.short_term_memory
    round_prompts,      \* the persona prompts built in the current round
    synth_prompt,       \* the prompt built by _synthesize_debate
    gen_calls,          \* _create_prompt calls for round arguments, this invocation
    summ_calls,         \* summarize_speeches calls, this invocation
    synth_calls,        \* _create_prompt calls for synthesis, this invocation
    gen_failed,         \* a generator call of this invocation raised or returned empty content
    after_failure,      \* generator/summarizer calls made after gen_failed was set
    result,             \* the value analyze returned (NoResult while none)
    saved,              \* number of results passed to save_to_memory
    confidence,         \* last value returned by _calculate_confidence (thousandths)
    extracted,          \* the stances _extract_stances returned last
    running,            \* the DebateAgent instance (1 or 2) the variables above belong to
    suspended           \* the variables above of the other instance while it waits
                        \* (<<>> where there is one instance only)

vars == <<pc, call, data, market_data, round_num, role_idx, round_results, debate_results,
          mid_term_memory, short_term_memory, round_prompts, synth_prompt,
          gen_calls, summ_calls, synth_calls, gen_failed, after_failure,
          result, saved, confidence, extracted, running, suspended>>

-----------------------------------------------------------------------------
(* Program constants                                                       *)

\* the loop bound off by one
debate_rounds_four == 3 + 1

debate_rounds == 3

roles == <<"fundamental", "technical", "risk">>

(* Bounds of the model                                                     *)

\* analyze invocations on one instance, in Spec and in ReuseSpec
MaxCalls == 1

MaxReuseCalls == 2

-----------------------------------------------------------------------------
(* Strings                                                                 *)

\* the characters str.lower() changes
UpperCaseLetters ==
    {"A", "B", "C", "D", "E", "F", "G", "H", "I", "J", "K", "L", "M",
     "N", "O", "P", "Q", "R", "S", "T", "U", "V", "W", "X", "Y", "Z"}

\* str.lower() on one character
LowerChar(c) ==
    IF c \notin UpperCaseLetters THEN c ELSE
    CASE c = "A" -> "a"
      [] c = "B" -> "b"
      [] c = "C" -> "c"
      [] c = "D" -> "d"
      [] c = "E" -> "e"
      [] c = "F" -> "f"
      [] c = "G" -> "g"
      [] c = "H" -> "h"
      [] c = "I" -> "i"
      [] c = "J" -> "j"
      [] c = "K" -> "k"
      [] c = "L" -> "l"
      [] c = "M" -> "m"
      [] c = "N" -> "n"
      [] c = "O" -> "o"
      [] c = "P" -> "p"
      [] c = "Q" -> "q"
      [] c = "R" -> "r"
      [] c = "S" -> "s"
      [] c = "T" -> "t"
      [] c = "U" -> "u"
      [] c = "V" -> "v"
      [] c = "W" -> "w"
      [] c = "X" -> "x"
      [] c = "Y" -> "y"
      [] c = "Z" -> "z"
      [] OTHER -> c

\* str.lower(): every character lowered, the halves of the text in turn
RECURSIVE Lower(_)
Lower(t) ==
    IF Len(t) = 0 THEN ""
    ELSE IF Len(t) = 1 THEN LowerChar(t)
    ELSE LET half == Len(t) \div 2 IN
         Lower(SubSeq(t, 1, half)) \o Lower(SubSeq(t, half + 1, Len(t)))

\* the characters str.upper() changes
LowerCaseLetters ==
    {"a", "b", "c", "d", "e", "f", "g", "h", "i", "j", "k", "l", "m",
     "n", "o", "p", "q", "r", "s", "t", "u", "v", "w", "x", "y", "z"}

\* str.upper() on one character
UpperChar(c) ==
    IF c \notin LowerCaseLetters THEN c ELSE
    CASE c = "a" -> "A"
      [] c = "b" -> "B"
      [] c = "c" -> "C"
      [] c = "d" -> "D"
      [] c = "e" -> "E"
      [] c = "f" -> "F"
      [] c = "g" -> "G"
      [] c = "h" -> "H"
      [] c = "i" -> "I"
      [] c = "j" -> "J"
      [] c = "k" -> "K"
      [] c = "l" -> "L"
      [] c = "m" -> "M"
      [] c = "n" -> "N"
      [] c = "o" -> "O"
      [] c = "p" -> "P"
      [] c = "q" -> "Q"
      [] c = "r" -> "R"
      [] c = "s" -> "S"
      [] c = "t" -> "T"
      [] c = "u" -> "U"
      [] c = "v" -> "V"
      [] c = "w" -> "W"
      [] c = "x" -> "X"
      [] c = "y" -> "Y"
      [] c = "z" -> "Z"
      [] OTHER -> c

\* str.upper(): every character raised, the halves of the text in turn
RECURSIVE Upper(_)
Upper(t) ==
    IF Len(t) = 0 THEN ""
    ELSE IF Len(t) = 1 THEN UpperChar(t)
    ELSE LET half == Len(t) \div 2 IN
         Upper(SubSeq(t, 1, half)) \o Upper(SubSeq(t, half + 1, Len(t)))

\* phrase in text
Contains(t, phrase) ==
    LET last == Len(phrase) - 1 IN
    \E i \in 1..(Len(t) - last) : SubSeq(t, i, i + last) = phrase

\* sep.join(texts)
RECURSIVE StrJoin(_, _)
StrJoin(sep, texts) ==
    IF Len(texts) = 0 THEN ""
    ELSE IF Len(texts) = 1 THEN texts[1]
    ELSE texts[1] \o sep \o StrJoin(sep, Tail(texts))

\* str(n) for the round numbers that occur
Str(n) == <<"1", "2", "3", "4">>[n]

-----------------------------------------------------------------------------
(* Inputs and collaborators                                                *)

\* market_data = {} (no key at all)
EmptyData == [k \in {} |-> ""]

\* dict.get(key, default)
DictGet(d, key, default) == IF key \in DOMAIN d THEN d[key] ELSE default

\* Python's None, the default of dict.get(key): a value that is no string
None == <<>>

\* what the text generator can return for a persona or for the synthesis:
\* a bullish text, a bearish text, or empty content (which names no stance)
TextBullish == "Bullish low risk"
TextBearish == "Bearish high risk"
TextEmpty == ""
GenTexts == {TextBullish, TextBearish, TextEmpty}

\* the responses of a generator that always takes a side
SidedTexts == {TextBullish, TextBearish}

\* a response that names neither stance (and carries no scored phrase)
TextHold == "hold"

\* the responses of a generator free to take a side or none
FreeTexts == {TextBullish, TextBearish, TextHold}

\* the response to the synthesis prompt
TextFinal == "Final recommendation"

\* the market_data analyze is called with in Spec and DebateSpec (ScoreSpec
\* and PhraseSpec score every kind of trend)
DebateMarketData == {[trend |-> "up"]}

\* the requests analyze is called with in Spec and DebateSpec: market data and
\* the time of the request (ReuseSpec and ConcurrentSpec pass {}, a request
\* with no key)
DebateRequests ==
    {[market_data |-> md, timestamp |-> "2024-05-01T10:00:00"] : md \in DebateMarketData}

\* MemorySummaryAgent.summarize_speeches: the summary of one round's speeches,
\* an opaque text identified by the invocation and round it summarises
summarize_speeches(c, r, this_round_data) ==
    << <<"s1r1", "s1r2", "s1r3", "s1r4">>,
       <<"s2r1", "s2r2", "s2r3", "s2r4">>,
       <<"s3r1", "s3r2", "s3r3", "s3r4">>,
       <<"s4r1", "s4r2", "s4r3", "s4r4">> >>[c][r]

\* MemorySummaryAgent.add_to_short_term_memory(container, summary): the
\* summary replaces what the single slot held
add_to_short_term_memory(container, summary) == <<summary>>

\* MemorySummaryAgent.add_to_mid_term_memory(container, summary)
add_to_mid_term_memory(container, summary) == Append(container, summary)

-----------------------------------------------------------------------------
(* Helpers of DebateAgent                                                  *)

\* the two tests in the other order: "bearish" wins over "bullish"
_extract_stances_bearish_first(round_data) ==
    [i \in 1..Len(round_data) |->
        LET text == Lower(round_data[i].arguments) IN
        IF Contains(text, "bearish") THEN "bearish"
        ELSE IF Contains(text, "bullish") THEN "bullish"
        ELSE "neutral"]

\* one label per entry, in order
_extract_stances(round_data) ==
    [i \in 1..Len(round_data) |->
        LET text == Lower(round_data[i].arguments) IN
        IF Contains(text, "bullish") THEN "bullish"
        ELSE IF Contains(text, "bearish") THEN "bearish"
        ELSE "neutral"]

\* the convergence test asking for a side: a round whose arguments all name
\* no stance does not count as agreement
Converged_sided(round_data) ==
    LET stances == _extract_stances(round_data)
        labels == {stances[i] : i \in 1..Len(stances)}
    IN  Cardinality(labels) <= 1 /\ "neutral" \notin labels

\* the convergence test with <= 2 for <= 1: two sides count as agreement
Converged_le2(round_data) ==
    LET stances == _extract_stances(round_data) IN
    Cardinality({stances[i] : i \in 1..Len(stances)}) <= 2

\* len(set(stances)) <= 1
Converged(round_data) ==
    LET stances == _extract_stances(round_data) IN
    Cardinality({stances[i] : i \in 1..Len(stances)}) <= 1

FormatEntry(e) ==
    "Round " \o Str(e.round) \o " (" \o Upper(e.perspective) \o "):\n"
        \o e.arguments \o "\n"

_format_previous_rounds(rounds) ==
    IF Len(rounds) = 0 THEN "No previous arguments."
    ELSE StrJoin("\n", [i \in 1..Len(rounds) |-> FormatEntry(rounds[i])])

_get_mid_term_info(mid) ==
    IF Len(mid) = 0 THEN "No mid-term memory recorded."
    ELSE StrJoin(" | ", mid)

_get_short_term_info(short) ==
    IF Len(short) = 0 THEN "No short-term memory recorded."
    ELSE short[Len(short)]

\* a prompt that formats the transcript together with the round in progress
PersonaPrompt_live(rn, name, md, mid, short, rounds) ==
    [role     |-> IF rn = 0 THEN "description" ELSE "reminder",
     round    |-> rn + 1,
     perspective |-> Upper(name),
     market_data |-> md,
     mid_term |-> _get_mid_term_info(mid),
     short_term |-> _get_short_term_info(short),
     previous |-> _format_previous_rounds(rounds \o round_results)]

\* the role string and the content of one persona prompt
PersonaPrompt(rn, name, md, mid, short, rounds) ==
    [role     |-> IF rn = 0 THEN "description" ELSE "reminder",
     round    |-> rn + 1,
     perspective |-> Upper(name),
     market_data |-> md,
     mid_term |-> _get_mid_term_info(mid),
     short_term |-> _get_short_term_info(short),
     previous |-> _format_previous_rounds(rounds)]

\* a synthesis prompt that formats the last round's buffer only
SynthesisPrompt_buffer(mid, short, rounds) ==
    [mid_term |-> _get_mid_term_info(mid),
     short_term |-> _get_short_term_info(short),
     history |-> _format_previous_rounds(round_results)]

\* the content of the synthesis prompt
SynthesisPrompt(mid, short, rounds) ==
    [mid_term |-> _get_mid_term_info(mid),
     short_term |-> _get_short_term_info(short),
     history |-> _format_previous_rounds(rounds)]

-----------------------------------------------------------------------------
(* _calculate_confidence, in thousandths                                   *)

\* [r['arguments'] for r in debate_rounds if r['perspective'] == name]
ArgsOf(rounds, name) ==
    LET Keep(e) == e.perspective = name
        sel == SelectSeq(rounds, Keep)
    IN  [i \in 1..Len(sel) |-> sel[i].arguments]

\* " ".join(args).lower()
AllText(rounds, name) == Lower(StrJoin(" ", ArgsOf(rounds, name)))

MildIncrease == "mild increase"
LowRisk == "low risk"
HighRisk == "high risk"
DownwardPressure == "downward pressure"
UpwardMomentum == "upward momentum"
MovingAverage == "moving average crossing above price"

\* the trend branch: confidence after the adjustment
TrendAdjusted(c, md) ==
    LET trend == DictGet(md, "trend", "flat") IN
    IF trend = "up" THEN c + 100
    ELSE IF trend = "down" THEN c - 50
    ELSE c - 20

\* check_pairwise with `if` for the `elif` of the risk keywords
check_pairwise_if(text_a, text_b) ==
    LET a1 == IF Contains(text_a, MildIncrease) /\ Contains(text_b, MildIncrease)
              THEN 1 ELSE 0
        lowBoth == Contains(text_a, LowRisk) /\ Contains(text_b, LowRisk)
        lowHigh == \/ Contains(text_a, LowRisk) /\ Contains(text_b, HighRisk)
                   \/ Contains(text_a, HighRisk) /\ Contains(text_b, LowRisk)
        a2 == IF lowBoth THEN 1 ELSE 0
        d1 == IF lowHigh THEN 1 ELSE 0
        d2 == IF Contains(text_a, DownwardPressure) /\ Contains(text_b, UpwardMomentum)
              THEN 1
              ELSE IF Contains(text_b, DownwardPressure) /\ Contains(text_a, UpwardMomentum)
              THEN 1 ELSE 0
    IN  <<a1 + a2, d1 + d2>>

\* <<local_agreements, local_disagreements>>
check_pairwise(text_a, text_b) ==
    LET a1 == IF Contains(text_a, MildIncrease) /\ Contains(text_b, MildIncrease)
              THEN 1 ELSE 0
        lowBoth == Contains(text_a, LowRisk) /\ Contains(text_b, LowRisk)
        lowHigh == \/ Contains(text_a, LowRisk) /\ Contains(text_b, HighRisk)
                   \/ Contains(text_a, HighRisk) /\ Contains(text_b, LowRisk)
        a2 == IF lowBoth THEN 1 ELSE 0
        d1 == IF ~lowBoth /\ lowHigh THEN 1 ELSE 0
        d2 == IF Contains(text_a, DownwardPressure) /\ Contains(text_b, UpwardMomentum)
              THEN 1
              ELSE IF Contains(text_b, DownwardPressure) /\ Contains(text_a, UpwardMomentum)
              THEN 1 ELSE 0
    IN  <<a1 + a2, d1 + d2>>

\* the "at least two perspectives mention the same technical phrase" test
TechnicalConsistency(f, t, r) ==
    \/ Contains(f, MovingAverage) /\ Contains(t, MovingAverage)
    \/ Contains(f, MovingAverage) /\ Contains(r, MovingAverage)
    \/ Contains(t, MovingAverage) /\ Contains(r, MovingAverage)

Min(a, b) == IF a < b THEN a ELSE b
Max(a, b) == IF a > b THEN a ELSE b

\* max(0.0, min(1.0, confidence))
Clamp(c) == Max(0, Min(1000, c))

\* the value before the final clamp, each agreement and disagreement
\* weighing 0.5 for 0.05
RawConfidence_half(rounds, md) ==
    LET c1 == TrendAdjusted(500, md)
        all_fundamental_text == AllText(rounds, "fundamental")
        all_technical_text == AllText(rounds, "technical")
        all_risk_text == AllText(rounds, "risk")
        ft == check_pairwise(all_fundamental_text, all_technical_text)
        fr == check_pairwise(all_fundamental_text, all_risk_text)
        tr == check_pairwise(all_technical_text, all_risk_text)
        agreements == ft[1] + fr[1] + tr[1]
        disagreements == ft[2] + fr[2] + tr[2]
        c2 == c1 + agreements * 500 - disagreements * 500
    IN  IF TechnicalConsistency(all_fundamental_text, all_technical_text, all_risk_text)
        THEN c2 + 30 ELSE c2

\* the value before the final clamp
RawConfidence(rounds, md) ==
    LET c1 == TrendAdjusted(500, md)
        all_fundamental_text == AllText(rounds, "fundamental")
        all_technical_text == AllText(rounds, "technical")
        all_risk_text == AllText(rounds, "risk")
        ft == check_pairwise(all_fundamental_text, all_technical_text)
        fr == check_pairwise(all_fundamental_text, all_risk_text)
        tr == check_pairwise(all_technical_text, all_risk_text)
        agreements == ft[1] + fr[1] + tr[1]
        disagreements == ft[2] + fr[2] + tr[2]
        c2 == c1 + agreements * 50 - disagreements * 50
    IN  IF TechnicalConsistency(all_fundamental_text, all_technical_text, all_risk_text)
        THEN c2 + 30 ELSE c2

\* a scorer that also looks at the instance's memory
_calculate_confidence_memory(rounds, md) ==
    LET confidence_before == RawConfidence(rounds, md) + 10 * Len(mid_term_memory)
    IN  Clamp(confidence_before)

_calculate_confidence(rounds, md) ==
    LET confidence_before == RawConfidence(rounds, md) IN Clamp(confidence_before)

-----------------------------------------------------------------------------
(* The instance after DebateAgent.__init__                                 *)

NoScore == 0 - 1

\* the fields of an instance __init__ has just built, and its empty frame
Constructed ==
    [pc |-> "idle", call |-> 0, data |-> EmptyData, market_data |-> EmptyData, round_num |-> 0,
     role_idx |-> 1, round_results |-> <<>>, debate_results |-> <<>>,
     mid_term_memory |-> <<>>, short_term_memory |-> <<>>, round_prompts |-> <<>>,
     synth_prompt |-> <<>>, gen_calls |-> 0, summ_calls |-> 0, synth_calls |-> 0,
     gen_failed |-> FALSE, after_failure |-> 0, result |-> <<>>, saved |-> 0,
     confidence |-> NoScore, extracted |-> <<>>]

Init ==
    /\ pc = "idle"
    /\ call = 0
    /\ data = EmptyData
    /\ market_data = EmptyData
    /\ round_num = 0
    /\ role_idx = 1
    /\ round_results = <<>>
    /\ debate_results = <<>>
    /\ mid_term_memory = <<>>
    /\ short_term_memory = <<>>
    /\ round_prompts = <<>>
    /\ synth_prompt = <<>>
    /\ gen_calls = 0
    /\ summ_calls = 0
    /\ synth_calls = 0
    /\ gen_failed = FALSE
    /\ after_failure = 0
    /\ result = <<>>
    /\ saved = 0
    /\ confidence = NoScore
    /\ extracted = <<>>
    /\ running = 1
    /\ suspended = <<>>

\* the frame of an invocation: its locals and the bookkeeping about its calls
FreshFrame ==
    /\ round_num' = 0
    /\ role_idx' = 1
    /\ round_results' = <<>>
    /\ debate_results' = <<>>
    /\ round_prompts' = <<>>
    /\ synth_prompt' = <<>>
    /\ extracted' = <<>>

\* an exception leaves analyze: the frame's locals are gone, nothing is returned
Propagate ==
    /\ pc' = "failed"
    /\ FreshFrame
    /\ UNCHANGED <<call, data, market_data, mid_term_memory, short_term_memory,
                   result, saved, confidence, running, suspended>>

\* analyze(data) is entered: market_data is read and _conduct_debate starts
\* with debate_rounds = []
Analyze(d) ==
    /\ pc \in {"idle", "returned", "failed"}
    /\ call' = call + 1
    /\ data' = d
    /\ market_data' = DictGet(d, "market_data", EmptyData)
    /\ FreshFrame
    /\ gen_calls' = 0
    /\ summ_calls' = 0
    /\ synth_calls' = 0
    /\ gen_failed' = FALSE
    /\ after_failure' = 0
    /\ result' = <<>>
    /\ confidence' = NoScore
    /\ pc' = "generate"
    /\ UNCHANGED <<mid_term_memory, short_term_memory, saved, running, suspended>>

\* one iteration of the inner loop: the prompt is built, the generator is
\* called and its response is appended to round_results
GenerateReturns(response) ==
    /\ pc = "generate"
    /\ LET perspective_name == roles[role_idx]
           content == PersonaPrompt(round_num, perspective_name, market_data,
                                    mid_term_memory, short_term_memory, debate_results)
       IN  /\ round_prompts' = Append(round_prompts, content)
           /\ round_results' = Append(round_results,
                                      [round |-> round_num + 1,
                                       perspective |-> perspective_name,
                                       arguments |-> response])
    /\ gen_calls' = gen_calls + 1
    /\ gen_failed' = (gen_failed \/ response = TextEmpty)
    /\ after_failure' = after_failure + (IF gen_failed THEN 1 ELSE 0)
    /\ IF role_idx < Len(roles)
       THEN /\ role_idx' = role_idx + 1
            /\ pc' = "generate"
       ELSE /\ role_idx' = role_idx
            /\ pc' = "check"
    /\ UNCHANGED <<call, data, market_data, round_num, debate_results, mid_term_memory,
                   short_term_memory, synth_prompt, summ_calls, synth_calls,
                   result, saved, confidence, extracted, running, suspended>>

\* the generator call of the inner loop raises
GenerateRaises ==
    /\ pc = "generate"
    /\ gen_calls' = gen_calls + 1
    /\ gen_failed' = TRUE
    /\ after_failure' = after_failure + (IF gen_failed THEN 1 ELSE 0)
    /\ Propagate
    /\ UNCHANGED <<summ_calls, synth_calls>>

\* the round inserted at the front of the transcript
Extend_front(rounds, results) == results \o rounds

\* debate_rounds.extend(round_results)
Extend(rounds, results) == rounds \o results

\* the end of a round: the buffer joins the transcript and the stances decide
\* between break and the memory step
CheckConvergence ==
    /\ pc = "check"
    /\ debate_results' = Extend(debate_results, round_results)
    /\ extracted' = _extract_stances(round_results)
    /\ pc' = IF Converged(round_results) THEN "synthesize" ELSE "summarize"
    /\ UNCHANGED <<call, data, market_data, round_num, role_idx, round_results,
                   mid_term_memory, short_term_memory, round_prompts, synth_prompt,
                   gen_calls, summ_calls, synth_calls, gen_failed, after_failure,
                   result, saved, confidence, running, suspended>>

\* [r['arguments'] for r in round_results if r['round'] == last_round_num]
ThisRoundData(results) ==
    LET last_round_num == results[Len(results)].round
        Keep(e) == e.round = last_round_num
        sel == SelectSeq(results, Keep)
    IN  [i \in 1..Len(sel) |-> sel[i].arguments]

\* the memory step with neither short_term_memory.clear() nor a replacing
\* promotion: the summary is added after what the slot held
ShortAfter_keep(short, summary) == Append(short, summary)

\* short_term_memory.clear(); add_to_short_term_memory(short_term_memory, summary)
ShortAfter(short, summary) == add_to_short_term_memory(<<>>, summary)

\* add_to_mid_term_memory(mid_term_memory, summary)
MidAfter(mid, summary) == add_to_mid_term_memory(mid, summary)

\* the memory step of a round that did not converge, then the next iteration
\* of the outer loop or its end
SummarizeReturns ==
    /\ pc = "summarize"
    /\ LET last_round_num == round_results[Len(round_results)].round
           round_summary == summarize_speeches(call, last_round_num,
                                               ThisRoundData(round_results))
       IN  /\ short_term_memory' = ShortAfter(short_term_memory, round_summary)
           /\ mid_term_memory' = MidAfter(mid_term_memory, round_summary)
    /\ summ_calls' = summ_calls + 1
    /\ after_failure' = after_failure + (IF gen_failed THEN 1 ELSE 0)
    /\ IF round_num + 1 < debate_rounds
       THEN /\ round_num' = round_num + 1
            /\ role_idx' = 1
            /\ round_results' = <<>>
            /\ round_prompts' = <<>>
            /\ pc' = "generate"
       ELSE /\ UNCHANGED <<round_num, role_idx, round_results, round_prompts>>
            /\ pc' = "synthesize"
    /\ UNCHANGED <<call, data, market_data, debate_results, synth_prompt, gen_calls,
                   synth_calls, gen_failed, result, saved, confidence, extracted,
                   running, suspended>>

\* the summarizer's exception caught and dropped: the loop goes on with the
\* memories as they were
SummarizeRaises_swallow ==
    /\ pc = "summarize"
    /\ summ_calls' = summ_calls + 1
    /\ after_failure' = after_failure + (IF gen_failed THEN 1 ELSE 0)
    /\ IF round_num + 1 < debate_rounds
       THEN /\ round_num' = round_num + 1
            /\ role_idx' = 1
            /\ round_results' = <<>>
            /\ round_prompts' = <<>>
            /\ pc' = "generate"
       ELSE /\ UNCHANGED <<round_num, role_idx, round_results, round_prompts>>
            /\ pc' = "synthesize"
    /\ UNCHANGED <<call, data, market_data, debate_results, mid_term_memory,
                   short_term_memory, synth_prompt, gen_calls, synth_calls,
                   gen_failed, result, saved, confidence, extracted, running,
                   suspended>>

\* summarize_speeches raises
SummarizeRaises ==
    /\ pc = "summarize"
    /\ summ_calls' = summ_calls + 1
    /\ after_failure' = after_failure + (IF gen_failed THEN 1 ELSE 0)
    /\ Propagate
    /\ UNCHANGED <<gen_calls, synth_calls, gen_failed>>

\* analysis_result with the score as a percentage
AnalysisResult_percent(final_analysis, rounds, timestamp, score) ==
    [debate_analysis |-> final_analysis,
     debate_rounds |-> rounds,
     timestamp |-> timestamp,
     confidence_score |-> score * 100]

\* analysis_result as analyze builds it
AnalysisResult(final_analysis, rounds, timestamp, score) ==
    [debate_analysis |-> final_analysis,
     debate_rounds |-> rounds,
     timestamp |-> timestamp,
     confidence_score |-> score]

\* the rest of analyze: _synthesize_debate calls the generator once, the
\* score is computed, the result is saved and returned
SynthesizeReturns(response) ==
    /\ pc = "synthesize"
    /\ synth_prompt' = <<SynthesisPrompt(mid_term_memory, short_term_memory,
                                         debate_results)>>
    /\ synth_calls' = synth_calls + 1
    /\ LET score == _calculate_confidence(debate_results, market_data) IN
       /\ confidence' = score
       /\ result' = <<AnalysisResult(response, debate_results,
                                      DictGet(data, "timestamp", None), score)>>
    /\ saved' = saved + 1
    /\ pc' = "returned"
    /\ UNCHANGED <<call, data, market_data, round_num, role_idx, round_results,
                   debate_results, mid_term_memory, short_term_memory, round_prompts,
                   gen_calls, summ_calls, gen_failed, after_failure, extracted,
                   running, suspended>>

\* the generator call of _synthesize_debate raises
SynthesizeRaises ==
    /\ pc = "synthesize"
    /\ synth_calls' = synth_calls + 1
    /\ Propagate
    /\ UNCHANGED <<gen_calls, summ_calls, gen_failed, after_failure>>

\* one instance serving MaxCalls requests
Next ==
    \/ \E d \in DebateRequests : call < MaxCalls /\ Analyze(d)
    \/ \E response \in GenTexts : GenerateReturns(response)
    \/ GenerateRaises
    \/ CheckConvergence
    \/ SummarizeReturns
    \/ SummarizeRaises
    \/ SynthesizeReturns(TextFinal)
    \/ SynthesizeRaises

Spec == Init /\ [][Next]_vars

\* one instance reused for MaxReuseCalls requests, its generator always taking
\* a side (debates with arguments that name no stance are those of DebateSpec)
ReuseNext ==
    \/ call < MaxReuseCalls /\ Analyze(EmptyData)
    \/ \E response \in SidedTexts : GenerateReturns(response)
    \/ GenerateRaises
    \/ CheckConvergence
    \/ SummarizeReturns
    \/ SummarizeRaises
    \/ SynthesizeReturns(TextFinal)
    \/ SynthesizeRaises

ReuseSpec == Init /\ [][ReuseNext]_vars

\* a freshly constructed instance asked for one debate, its generator free to
\* take a side or none in every argument
DebateNext ==
    \/ \E d \in DebateRequests : call = 0 /\ Analyze(d)
    \/ \E response \in FreeTexts : GenerateReturns(response)
    \/ GenerateRaises
    \/ CheckConvergence
    \/ SummarizeReturns
    \/ SummarizeRaises
    \/ SynthesizeReturns(TextFinal)
    \/ SynthesizeRaises

DebateSpec == Init /\ [][DebateNext]_vars

-----------------------------------------------------------------------------
(* _calculate_confidence applied to transcripts of the debate's shape      *)

\* texts carrying the scored phrases, in mixed case and inside longer words;
\* TextHighDown ends and TextUpMoving begins with one word of "mild increase"
TextMildLow == "Mild Increase LOW RISKS"
TextHighDown == "high risk Downward pressure mild"
TextUpMoving == "increase upward momentum Moving Average crossing above price"
PhraseTexts == {TextMildLow, TextHighDown, TextUpMoving}

\* in ScoreSpec at most this many entries of a scored transcript carry a text
\* of PhraseTexts
MaxPhraseEntries == 3

ScoreMarketData ==
    {[trend |-> "up"], [trend |-> "down"], [trend |-> "sideways"], EmptyData}

PhraseEntries(rounds) ==
    Cardinality({i \in 1..Len(rounds) : rounds[i].arguments \in PhraseTexts})

ScoreInit ==
    /\ pc = "score_build"
    /\ call = 0
    /\ data = EmptyData
    /\ market_data = EmptyData
    /\ round_num = 0
    /\ role_idx = 1
    /\ round_results = <<>>
    /\ debate_results = <<>>
    /\ mid_term_memory = <<>>
    /\ short_term_memory = <<>>
    /\ round_prompts = <<>>
    /\ synth_prompt = <<>>
    /\ gen_calls = 0
    /\ summ_calls = 0
    /\ synth_calls = 0
    /\ gen_failed = FALSE
    /\ after_failure = 0
    /\ result = <<>>
    /\ saved = 0
    /\ confidence = NoScore
    /\ extracted = <<>>
    /\ running = 1
    /\ suspended = <<>>

\* the next entry of a transcript: rounds of three, personas in declared order
ScoreAddEntry(text) ==
    /\ pc = "score_build"
    /\ Len(debate_results) < debate_rounds * Len(roles)
    /\ debate_results' =
           Append(debate_results,
                  [round |-> (Len(debate_results) \div Len(roles)) + 1,
                   perspective |-> roles[(Len(debate_results) % Len(roles)) + 1],
                   arguments |-> text])
    /\ UNCHANGED <<pc, call, data, market_data, round_num, role_idx, round_results,
                   mid_term_memory, short_term_memory, round_prompts, synth_prompt,
                   gen_calls, summ_calls, synth_calls, gen_failed, after_failure,
                   result, saved, confidence, extracted, running, suspended>>

\* _calculate_confidence(debate_rounds, market_data) on whole rounds
ScoreEvaluate(md) ==
    /\ pc = "score_build"
    /\ Len(debate_results) > 0
    /\ Len(debate_results) % Len(roles) = 0
    /\ market_data' = md
    /\ confidence' = _calculate_confidence(debate_results, md)
    /\ pc' = "scored"
    /\ UNCHANGED <<call, data, round_num, role_idx, round_results, debate_results,
                   mid_term_memory, short_term_memory, round_prompts, synth_prompt,
                   gen_calls, summ_calls, synth_calls, gen_failed, after_failure,
                   result, saved, extracted, running, suspended>>

\* transcripts of up to three rounds with up to MaxPhraseEntries phrase-carrying
\* entries, scored under every kind of trend
ScoreNext ==
    \/ \E text \in PhraseTexts :
          PhraseEntries(debate_results) < MaxPhraseEntries /\ ScoreAddEntry(text)
    \/ ScoreAddEntry(TextHold)
    \/ \E md \in ScoreMarketData : ScoreEvaluate(md)

ScoreSpec == ScoreInit /\ [][ScoreNext]_vars

\* the phrases check_pairwise compares, in a fixed order
PairPhrases ==
    <<MildIncrease, LowRisk, HighRisk, DownwardPressure, UpwardMomentum>>

\* a text naming the phrases of S, and no other
PhraseText(S) ==
    LET Keep(phrase) == phrase \in S IN StrJoin(", ", SelectSeq(PairPhrases, Keep))

\* a text for every combination of the phrases check_pairwise compares
PairTexts ==
    {PhraseText(S) : S \in SUBSET {PairPhrases[i] : i \in 1..Len(PairPhrases)}}

\* texts with the phrase of the technical-consistency test, alone and beside
\* the two phrases that count as agreements
AverageTexts ==
    {MovingAverage, StrJoin(", ", <<MildIncrease, LowRisk, MovingAverage>>)}

CombinedTexts == PairTexts \cup AverageTexts

\* transcripts of one round (a debate that converged at once), each persona
\* arguing any text of CombinedTexts, scored under every kind of trend
PhraseNext ==
    \/ \E text \in CombinedTexts :
          Len(debate_results) < Len(roles) /\ ScoreAddEntry(text)
    \/ \E md \in ScoreMarketData : ScoreEvaluate(md)

PhraseSpec == ScoreInit /\ [][PhraseNext]_vars

\* the debate and the scorer side by side
FullSpec == (Init \/ ScoreInit) /\ [][ReuseNext \/ ScoreNext]_vars

-----------------------------------------------------------------------------
(* Two DebateAgent instances, each serving one request, interleaved        *)

\* the fields and the analyze frame of the running instance
InstanceState ==
    [pc |-> pc, call |-> call, data |-> data, market_data |-> market_data, round_num |-> round_num,
     role_idx |-> role_idx, round_results |-> round_results,
     debate_results |-> debate_results, mid_term_memory |-> mid_term_memory,
     short_term_memory |-> short_term_memory, round_prompts |-> round_prompts,
     synth_prompt |-> synth_prompt, gen_calls |-> gen_calls,
     summ_calls |-> summ_calls, synth_calls |-> synth_calls,
     gen_failed |-> gen_failed, after_failure |-> after_failure, result |-> result,
     saved |-> saved, confidence |-> confidence, extracted |-> extracted]

\* the two instances with one pair of memory lists between them: a switch
\* leaves the lists as the instance that ran last left them
Switch_shared ==
    /\ running' = 3 - running
    /\ suspended' = InstanceState
    /\ pc' = suspended.pc
    /\ call' = suspended.call
    /\ data' = suspended.data
    /\ market_data' = suspended.market_data
    /\ round_num' = suspended.round_num
    /\ role_idx' = suspended.role_idx
    /\ round_results' = suspended.round_results
    /\ debate_results' = suspended.debate_results
    /\ UNCHANGED <<mid_term_memory, short_term_memory>>
    /\ round_prompts' = suspended.round_prompts
    /\ synth_prompt' = suspended.synth_prompt
    /\ gen_calls' = suspended.gen_calls
    /\ summ_calls' = suspended.summ_calls
    /\ synth_calls' = suspended.synth_calls
    /\ gen_failed' = suspended.gen_failed
    /\ after_failure' = suspended.after_failure
    /\ result' = suspended.result
    /\ saved' = suspended.saved
    /\ confidence' = suspended.confidence
    /\ extracted' = suspended.extracted

\* the scheduler passes control to the other instance: each instance has the
\* lists its own __init__ created and the locals of its own analyze
Switch ==
    /\ running' = 3 - running
    /\ suspended' = InstanceState
    /\ pc' = suspended.pc
    /\ call' = suspended.call
    /\ data' = suspended.data
    /\ market_data' = suspended.market_data
    /\ round_num' = suspended.round_num
    /\ role_idx' = suspended.role_idx
    /\ round_results' = suspended.round_results
    /\ debate_results' = suspended.debate_results
    /\ mid_term_memory' = suspended.mid_term_memory
    /\ short_term_memory' = suspended.short_term_memory
    /\ round_prompts' = suspended.round_prompts
    /\ synth_prompt' = suspended.synth_prompt
    /\ gen_calls' = suspended.gen_calls
    /\ summ_calls' = suspended.summ_calls
    /\ synth_calls' = suspended.synth_calls
    /\ gen_failed' = suspended.gen_failed
    /\ after_failure' = suspended.after_failure
    /\ result' = suspended.result
    /\ saved' = suspended.saved
    /\ confidence' = suspended.confidence
    /\ extracted' = suspended.extracted

\* the generator's answers in the two debates: any side for each persona of
\* instance 1; for instance 2 Bullish from the fundamental persona and
\* Bearish from the other two, in every round
ConcurrentTexts ==
    IF running = 2 /\ role_idx = 1 THEN {TextBullish}
    ELSE IF running = 2 THEN {TextBearish}
    ELSE SidedTexts

\* each instance is asked for one debate; their steps interleave freely
ConcurrentNext ==
    \/ call = 0 /\ Analyze(EmptyData)
    \/ \E response \in ConcurrentTexts : GenerateReturns(response)
    \/ CheckConvergence
    \/ SummarizeReturns
    \/ SynthesizeReturns(TextFinal)
    \/ Switch

\* two instances after their __init__, the first one about to run
ConcurrentInit ==
    /\ pc = "idle"
    /\ call = 0
    /\ data = EmptyData
    /\ market_data = EmptyData
    /\ round_num = 0
    /\ role_idx = 1
    /\ round_results = <<>>
    /\ debate_results = <<>>
    /\ mid_term_memory = <<>>
    /\ short_term_memory = <<>>
    /\ round_prompts = <<>>
    /\ synth_prompt = <<>>
    /\ gen_calls = 0
    /\ summ_calls = 0
    /\ synth_calls = 0
    /\ gen_failed = FALSE
    /\ after_failure = 0
    /\ result = <<>>
    /\ saved = 0
    /\ confidence = NoScore
    /\ extracted = <<>>
    /\ running = 1
    /\ suspended = Constructed

ConcurrentSpec == ConcurrentInit /\ [][ConcurrentNext]_vars

-----------------------------------------------------------------------------
(* _extract_stances applied to round entries                               *)

\* texts naming both stances, "bearish" first, and in upper case
TextBoth == "Bearish turning bULLISH"
TextUpperBear == "BEARISH"

\* the word inside a longer word
TextInWord == "unbearishness"
StanceTexts ==
    {TextBullish, TextBearish, TextEmpty, TextBoth, TextUpperBear, TextInWord, TextHold}

\* at most this many entries are handed to _extract_stances
MaxStanceEntries == 3

StanceInit ==
    /\ pc = "stance_build"
    /\ call = 0
    /\ data = EmptyData
    /\ market_data = EmptyData
    /\ round_num = 0
    /\ role_idx = 1
    /\ round_results = <<>>
    /\ debate_results = <<>>
    /\ mid_term_memory = <<>>
    /\ short_term_memory = <<>>
    /\ round_prompts = <<>>
    /\ synth_prompt = <<>>
    /\ gen_calls = 0
    /\ summ_calls = 0
    /\ synth_calls = 0
    /\ gen_failed = FALSE
    /\ after_failure = 0
    /\ result = <<>>
    /\ saved = 0
    /\ confidence = NoScore
    /\ extracted = <<>>
    /\ running = 1
    /\ suspended = <<>>

\* the next entry of the round handed to _extract_stances
StanceAddEntry(text) ==
    /\ pc = "stance_build"
    /\ Len(round_results) < MaxStanceEntries
    /\ round_results' =
           Append(round_results,
                  [round |-> 1,
                   perspective |-> roles[(Len(round_results) % Len(roles)) + 1],
                   arguments |-> text])
    /\ UNCHANGED <<pc, call, data, market_data, round_num, role_idx, debate_results,
                   mid_term_memory, short_term_memory, round_prompts, synth_prompt,
                   gen_calls, summ_calls, synth_calls, gen_failed, after_failure,
                   result, saved, confidence, extracted, running, suspended>>

\* stances = self._extract_stances(round_results)
StanceExtract ==
    /\ pc = "stance_build"
    /\ extracted' = _extract_stances(round_results)
    /\ pc' = "stance_done"
    /\ UNCHANGED <<call, data, market_data, round_num, role_idx, round_results,
                   debate_results, mid_term_memory, short_term_memory, round_prompts,
                   synth_prompt, gen_calls, summ_calls, synth_calls, gen_failed,
                   after_failure, result, saved, confidence, running, suspended>>

StanceNext ==
    \/ \E text \in StanceTexts : StanceAddEntry(text)
    \/ StanceExtract

StanceSpec == StanceInit /\ [][StanceNext]_vars

-----------------------------------------------------------------------------
(* Vocabulary of the properties                                            *)

\* the entries of round r, in transcript order
RoundOf(rounds, r) ==
    LET Keep(e) == e.round = r IN SelectSeq(rounds, Keep)

RoundComplete(rounds, r) == Len(RoundOf(rounds, r)) = Len(roles)

\* the stance labels of the entries
StanceLabels(entries) ==
    {_extract_stances(entries)[i] : i \in 1..Len(entries)}

\* at most one distinct stance label: all bullish, all bearish or all neutral
OneStance(entries) == Cardinality(StanceLabels(entries)) <= 1

IsPrefix(s, t) ==
    /\ Len(s) <= Len(t)
    /\ \A i \in 1..Len(s) : s[i] = t[i]

\* the summary texts of invocation c
SummariesOfCall(c) == {summarize_speeches(c, r, <<>>) : r \in 1..debate_rounds}

\* a summary of an invocation before the current one occurs in the text
ShowsEarlierSummary(text) ==
    \E c \in 1..(call - 1) : \E sm \in SummariesOfCall(c) : Contains(text, sm)

InDebate == pc \in {"generate", "check", "summarize", "synthesize"}

-----------------------------------------------------------------------------
(* C1: in every analyze invocation, also a second or later one on the same *)
(* instance, both memories are empty when round 1 begins: every round-1    *)
(* persona prompt carries the two sentinels, and no summary of an earlier  *)
(* invocation is visible to this debate's prompts or to its synthesis.     *)
C1_MemoryFreshEachAnalyze ==
    /\ \A i \in 1..Len(round_prompts) :
          /\ round_prompts[i].round = 1 =>
                /\ round_prompts[i].mid_term = "No mid-term memory recorded."
                /\ round_prompts[i].short_term = "No short-term memory recorded."
          /\ ~ShowsEarlierSummary(round_prompts[i].mid_term)
          /\ ~ShowsEarlierSummary(round_prompts[i].short_term)
    /\ \A i \in 1..Len(synth_prompt) :
          /\ ~ShowsEarlierSummary(synth_prompt[i].mid_term)
          /\ ~ShowsEarlierSummary(synth_prompt[i].short_term)


(* C2: convergence stops the debate.  Once a completed round r of the      *)
(* transcript has at most one distinct stance label (all bullish, all      *)
(* bearish or all neutral), no persona generation of a later round takes   *)
(* place (the loop has left: no entry of a round after r exists, exactly   *)
(* 3r arguments were generated); when round 1 converges the returned       *)
(* transcript has exactly 3 entries.                                       *)
C2_ConvergenceStops ==
    /\ \A r \in 1..debate_rounds :
          (RoundComplete(debate_results, r) /\ OneStance(RoundOf(debate_results, r))) =>
             /\ pc \in {"synthesize", "returned"}
             /\ gen_calls = Len(roles) * r
             /\ \A i \in 1..Len(debate_results) : debate_results[i].round <= r
             /\ \A i \in 1..Len(round_results) : round_results[i].round <= r
    /\ \A i \in 1..Len(result) :
          OneStance(RoundOf(result[i].debate_rounds, 1)) =>
             Len(result[i].debate_rounds) = 3

\* a debate has returned after a first round in which no argument named a
\* stance: three neutral labels, one distinct label
C2_Witness ==
    /\ pc = "returned"
    /\ Len(result[1].debate_rounds) = 3
    /\ \A i \in 1..3 : result[1].debate_rounds[i].arguments = TextHold
    /\ _extract_stances(result[1].debate_rounds) = <<"neutral", "neutral", "neutral">>

\* a round r < 3 that did not converge is followed by round r+1
C3_NextRoundFollows ==
    \A r \in 1..(debate_rounds - 1) :
       (RoundComplete(debate_results, r) /\ ~OneStance(RoundOf(debate_results, r))) =>
          /\ pc = "summarize" => round_num + 1 >= r
          /\ pc \in {"generate", "check"} => round_num + 1 > r
          /\ pc \in {"synthesize", "returned"} =>
                /\ RoundComplete(debate_results, r + 1)
                /\ {RoundOf(debate_results, r + 1)[i].perspective : i \in 1..Len(roles)}
                       = {roles[i] : i \in 1..Len(roles)}

\* the memory step of a round before the third, when it returns, hands over
\* to the first persona of the next round
C3_LoopGoesOn ==
    (pc = "summarize" /\ round_num + 1 < 3 /\ pc' # "failed") =>
       (pc' = "generate" /\ round_num' = round_num + 1 /\ role_idx' = 1)

(* C3: non-convergence continues the debate.  When a completed round r < 3 *)
(* has at least two distinct stance labels (two or all three of bullish,   *)
(* bearish and neutral), the loop goes on to round r+1:                    *)
(* it is never left between rounds r and r+1, the step after the round's   *)
(* memory step starts round r+1, and once the debate is past its loop      *)
(* (every call having returned) round r+1 holds the arguments of all three *)
(* personas.                                                               *)
C3_NonConvergenceContinues ==
    /\ []C3_NextRoundFollows
    /\ [][C3_LoopGoesOn]_vars

\* round 1 had one bullish, one bearish and one neutral argument, round 2 two
\* neutral arguments and a bullish one, and the debate returned with all
\* three personas' arguments of round 3
C3_Witness ==
    /\ pc = "returned"
    /\ _extract_stances(RoundOf(debate_results, 1)) = <<"bullish", "bearish", "neutral">>
    /\ _extract_stances(RoundOf(debate_results, 2)) = <<"neutral", "neutral", "bullish">>
    /\ RoundComplete(debate_results, 3)

\* steps a debate has taken: generator, summarizer and synthesis calls, and
\* convergence checks (one per round in the transcript)
DebateSteps ==
    gen_calls + summ_calls + synth_calls + (Len(debate_results) \div Len(roles))

C4_Bounded ==
    /\ Len(debate_results) <= 9
    /\ gen_calls <= 9 /\ summ_calls <= 3 /\ synth_calls <= 1
    /\ DebateSteps <= 16
    /\ \A i \in 1..Len(result) :
          LET t == result[i].debate_rounds
              N == Len(t) \div 3
          IN  /\ Len(t) = 3 * N
              /\ N \in {1, 2, 3}
              /\ \A r \in 1..N : RoundComplete(t, r)
              /\ N < 3 => OneStance(RoundOf(t, N))

(* C4: every debate whose calls all return ends after N rounds, N in       *)
(* {1, 2, 3}: the returned transcript has exactly 3*N entries, never more  *)
(* than 9, and N < 3 only if round N converged.  It ends because every     *)
(* step of a debate in which no call raises adds one to a count of steps   *)
(* that never exceeds 16 (9 arguments, 3 checks, 3 summaries, 1 synthesis).*)
C4_TerminatesWithinThreeRounds ==
    /\ []C4_Bounded
    /\ [][(InDebate /\ pc' # "failed") => DebateSteps' = DebateSteps + 1]_vars

\* a debate returned after three rounds, the third without convergence
C4_Witness ==
    /\ pc = "returned"
    /\ Len(result[1].debate_rounds) = 9
    /\ ~OneStance(RoundOf(result[1].debate_rounds, 3))

\* the summary the current invocation made of its round r
OwnSummary(r) == summarize_speeches(call, r, <<>>)

(* C5: in any analyze invocation, after round 1 completes without          *)
(* convergence short-term memory holds exactly the round-1 summary and     *)
(* mid-term memory exactly one entry; after round 2 also completes without *)
(* convergence mid-term memory holds exactly the round-1 and round-2       *)
(* summaries, in that order, and short-term memory exactly the round-2     *)
(* summary.                                                                *)
C5_MemoryAfterRounds ==
    /\ (pc \in {"generate", "check"} /\ round_num = 1) =>
          /\ short_term_memory = <<OwnSummary(1)>>
          /\ Len(mid_term_memory) = 1
    /\ (pc \in {"generate", "check"} /\ round_num = 2) =>
          /\ mid_term_memory = <<OwnSummary(1), OwnSummary(2)>>
          /\ short_term_memory = <<OwnSummary(2)>>


(* C6: every result analyze returns contains a confidence_score, and for   *)
(* every transcript and market_data that score lies in [0.0, 1.0], that is *)
(* between 0 and 1000 thousandths.                                         *)
C6_ScoreInUnitInterval ==
    /\ \A i \in 1..Len(result) :
          /\ "confidence_score" \in DOMAIN result[i]
          /\ result[i].confidence_score \in 0..1000
    /\ pc \in {"scored", "returned"} => confidence \in 0..1000

\* three bullish "low risk" arguments with no trend given were scored and
\* returned: 0.5 - 0.02 + 3 * 0.05
C6_Witness ==
    /\ pc = "returned"
    /\ "trend" \notin DOMAIN market_data
    /\ Len(result[1].debate_rounds) = 3
    /\ result[1].confidence_score = 630

(* C7: if a generator call fails during a round (it raises, or returns     *)
(* empty content), no further generator or summarizer call is made for     *)
(* that debate and analyze propagates the failure without returning a      *)
(* result.                                                                 *)
C7_GeneratorFailurePropagates ==
    gen_failed =>
       /\ pc = "failed"
       /\ after_failure = 0
       /\ result = <<>>

\* entry k (1-based) of a transcript is the ((k-1) mod 3)-th persona's argument
\* of round ((k-1) div 3) + 1
InGenerationOrder(t) ==
    \A k \in 1..Len(t) :
       /\ t[k].round = ((k - 1) \div 3) + 1
       /\ t[k].perspective = roles[((k - 1) % 3) + 1]

C8_Ordered ==
    /\ InGenerationOrder(debate_results)
    /\ \A i \in 1..Len(result) : InGenerationOrder(result[i].debate_rounds)

(* C8: the transcript is append-only and in generation order.  Every step  *)
(* of a debate leaves the transcript a prefix of what it becomes and of    *)
(* the transcript that is finally returned, and the entry at 0-based       *)
(* position k has round (k div 3) + 1 and the (k mod 3)-th persona of      *)
(* fundamental, technical, risk.                                           *)
C8_TranscriptAppendOnly ==
    /\ []C8_Ordered
    /\ [][(call' = call /\ pc' # "failed") =>
             /\ IsPrefix(debate_results, debate_results')
             /\ \A i \in 1..Len(result') :
                   IsPrefix(debate_results, result'[i].debate_rounds)]_vars

\* a two-round transcript was returned, its fifth entry the technical
\* persona's second argument
C8_Witness ==
    /\ pc = "returned"
    /\ Len(result[1].debate_rounds) = 6
    /\ result[1].debate_rounds[5].perspective = "technical"
    /\ result[1].debate_rounds[5].round = 2

\* the transcript with entries i and j exchanged
Swap(t, i, j) ==
    [k \in 1..Len(t) |-> IF k = i THEN t[j] ELSE IF k = j THEN t[i] ELSE t[k]]

(* C9: the confidence score is order-independent over the transcript:      *)
(* scoring a permutation of the entries gives the score of the original.   *)
(* Stated for the exchanges of two entries, which are permutations and     *)
(* generate them all.                                                      *)
C9_ScoreOrderIndependent ==
    pc = "scored" =>
       \A i, j \in 1..Len(debate_results) :
          _calculate_confidence(Swap(debate_results, i, j), market_data) = confidence

\* the scored phrases
ScoredPhrases ==
    {MildIncrease, LowRisk, HighRisk, DownwardPressure, UpwardMomentum, MovingAverage}

\* the scored phrases a persona's combined text contains
PhrasesOf(rounds, name) ==
    LET text == AllText(rounds, name) IN
    {phrase \in ScoredPhrases : Contains(text, phrase)}

\* pr: the phrase sets of the two personas of a pair
BothHave(pr, phrase) == phrase \in pr[1] /\ phrase \in pr[2]

OneEach(pr, p, q) == (p \in pr[1] /\ q \in pr[2]) \/ (p \in pr[2] /\ q \in pr[1])

ClaimT(md) ==
    IF "trend" \in DOMAIN md /\ md["trend"] = "up" THEN 100
    ELSE IF "trend" \in DOMAIN md /\ md["trend"] = "down" THEN 0 - 50
    ELSE 0 - 20

\* clamp(500 + T + 50*(A - D) + 30*M, 0, 1000)
ClaimScore(rounds, md) ==
    LET F == PhrasesOf(rounds, "fundamental")
        T == PhrasesOf(rounds, "technical")
        R == PhrasesOf(rounds, "risk")
        texts == <<F, T, R>>
        pairs == << <<F, T>>, <<F, R>>, <<T, R>> >>
        A == Cardinality({k \in 1..3 : BothHave(pairs[k], MildIncrease)})
             + Cardinality({k \in 1..3 : BothHave(pairs[k], LowRisk)})
        D == Cardinality({k \in 1..3 : /\ ~BothHave(pairs[k], LowRisk)
                                       /\ OneEach(pairs[k], LowRisk, HighRisk)})
             + Cardinality({k \in 1..3 :
                               OneEach(pairs[k], DownwardPressure, UpwardMomentum)})
        M == IF Cardinality({k \in 1..3 : MovingAverage \in texts[k]}) >= 2
             THEN 1 ELSE 0
        value == 500 + ClaimT(md) + 50 * (A - D) + 30 * M
    IN  IF value < 0 THEN 0 ELSE IF value > 1000 THEN 1000 ELSE value

(* C10: in thousandths the score is clamp(500 + T + 50*(A - D) + 30*M, 0,  *)
(* 1000): T is +100 for trend "up", -50 for "down", -20 otherwise; A and D *)
(* count, over the 3 unordered persona pairs, the agreements (both "mild   *)
(* increase"; both "low risk") and disagreements ("low risk" against       *)
(* "high risk" unless both have "low risk"; "downward pressure" against    *)
(* "upward momentum"); M is 1 when "moving average crossing above price"   *)
(* is in at least two persona texts.  Trend "up" and no phrase gives 0.60. *)
C10_ScoreFormula ==
    pc = "scored" =>
       /\ confidence = ClaimScore(debate_results, market_data)
       /\ (/\ DictGet(market_data, "trend", "flat") = "up"
           /\ \A n \in {"fundamental", "technical", "risk"} :
                 PhrasesOf(debate_results, n) = {})
          => confidence = 600

\* a scored pair in which both texts have "mild increase" and "low risk" and
\* one also "high risk": two agreements and no disagreement
C10_Witness ==
    /\ pc = "scored"
    /\ PhrasesOf(debate_results, "fundamental") = {MildIncrease, LowRisk}
    /\ {MildIncrease, LowRisk, HighRisk} \subseteq PhrasesOf(debate_results, "technical")
    /\ PhrasesOf(debate_results, "risk") = {}
    /\ DictGet(market_data, "trend", "flat") = "up"
    /\ confidence = 700


\* some stretch of the text spells the word, in whatever letter case
Names(text, word) ==
    \E i \in 1..(Len(text) - Len(word) + 1) :
        Lower(SubSeq(text, i, i + Len(word) - 1)) = word

\* bullish if the text names "bullish", else bearish if it names "bearish",
\* else neutral
ClaimStance(text) ==
    IF Names(text, "bullish") THEN "bullish"
    ELSE IF Names(text, "bearish") THEN "bearish"
    ELSE "neutral"

(* C11: stance extraction returns exactly one label per round entry, in    *)
(* the order of the entries; an entry's label is bullish if its lower-     *)
(* cased text contains "bullish" (even if it also contains "bearish"),     *)
(* otherwise bearish if it contains "bearish", otherwise neutral.          *)
C11_StanceExtraction ==
    pc = "stance_done" =>
       /\ Len(extracted) = Len(round_results)
       /\ \A i \in 1..Len(round_results) :
             extracted[i] = ClaimStance(round_results[i].arguments)

\* a text naming both stances was labelled bullish, between an upper-case
\* bearish text and a text naming no stance
C11_Witness ==
    /\ pc = "stance_done"
    /\ Len(round_results) = 3
    /\ round_results[1].arguments = TextUpperBear
    /\ round_results[2].arguments = TextBoth
    /\ round_results[3].arguments = TextHold
    /\ extracted = <<"bearish", "bullish", "neutral">>


\* the rounds of a transcript that are complete and did not converge
OpenRounds(t) ==
    {r \in 1..debate_rounds : RoundComplete(t, r) /\ ~OneStance(RoundOf(t, r))}

\* st, the state of one instance, is what its own debate alone produces: the
\* transcript holds its own arguments in generation order, the memories hold
\* the summaries of its own rounds that did not converge, one per memory
\* step it took, and its result carries its own transcript and score
AsIfAlone(st) ==
    LET own == [r \in 1..st.summ_calls |-> summarize_speeches(st.call, r, <<>>)]
        pending == IF st.pc \in {"generate", "check"} THEN Len(st.round_results) ELSE 0
    IN  /\ InGenerationOrder(st.debate_results)
        /\ st.gen_calls = Len(st.debate_results) + pending
        /\ st.summ_calls = Cardinality(OpenRounds(st.debate_results))
                             - (IF st.pc = "summarize" THEN 1 ELSE 0)
        /\ st.mid_term_memory = own
        /\ st.short_term_memory =
               (IF st.summ_calls = 0 THEN <<>> ELSE <<own[st.summ_calls]>>)
        /\ st.pc = "returned" =>
               /\ Len(st.result) = 1
               /\ st.result[1].debate_rounds = st.debate_results
               /\ st.result[1].confidence_score
                      = ClaimScore(st.debate_results, st.market_data)
        /\ st.pc # "returned" => st.result = <<>>

C12_EachAlone == AsIfAlone(InstanceState) /\ AsIfAlone(suspended)

\* a step of the running instance leaves the suspended one as it is; a
\* switch exchanges the two and changes neither
C12_OtherUntouched ==
    /\ (running' = running) => (suspended' = suspended)
    /\ (running' # running) =>
          (InstanceState' = suspended /\ suspended' = InstanceState)

(* C12: two debates run concurrently on two DebateAgent instances, each    *)
(* with its own memory lists, never interfere.  Under every interleaving   *)
(* of their generation, stance-check and memory-update steps a step of one *)
(* instance leaves the other instance's transcript, memories and result    *)
(* untouched, a switch hands each instance back exactly what it left, and  *)
(* each instance's transcript, short-term memory, mid-term memory and      *)
(* result are those of its own debate run alone.                           *)
C12_ConcurrentDebatesIsolated ==
    /\ []C12_EachAlone
    /\ [][C12_OtherUntouched]_vars

\* instance 1 is in its third round with two summaries of its own while
\* instance 2, suspended, has finished its first round and not yet summarised it
C12_Witness ==
    /\ running = 1
    /\ pc = "generate"
    /\ round_num = 2
    /\ Len(mid_term_memory) = 2
    /\ suspended.pc = "summarize"
    /\ suspended.round_num = 0
    /\ suspended.mid_term_memory = <<>>


(* C13: when synthesis runs at the end of a debate that completed N        *)
(* rounds, mid-term memory is the summary history of all N completed       *)
(* rounds, one summary per round in round order, and short-term memory is  *)
(* the summary of round N.                                                 *)
C13_MemoryAtSynthesis ==
    (pc \in {"synthesize", "returned"} /\ ~gen_failed) =>
       LET N == Len(debate_results) \div Len(roles) IN
       /\ mid_term_memory = [r \in 1..N |-> OwnSummary(r)]
       /\ short_term_memory = <<OwnSummary(N)>>


\* the score of the returned result is the value the transcript and the
\* market_data alone determine
C14_ScoreOfArguments ==
    pc = "returned" =>
       /\ confidence = ClaimScore(debate_results, market_data)
       /\ result[1].confidence_score = ClaimScore(result[1].debate_rounds, market_data)

\* the step that evaluates the score
C14_Evaluation == pc = "synthesize" /\ pc' = "returned"

(* C14: scoring is deterministic and pure.  Whatever the instance's short- *)
(* term and mid-term memory hold when the score is evaluated (nothing in a *)
(* first debate that converged at once, summaries of this or of an earlier *)
(* debate otherwise), the value is the one function of the transcript and  *)
(* of market_data, so two evaluations on an identical transcript and       *)
(* market_data agree; and the evaluation changes neither the transcript    *)
(* nor either memory.                                                      *)
C14_ScoringPure ==
    /\ []C14_ScoreOfArguments
    /\ [][C14_Evaluation =>
             UNCHANGED <<debate_results, mid_term_memory, short_term_memory>>]_vars

\* three bullish "low risk" arguments scored in a second debate of the
\* instance, while its memory holds summaries: 0.5 - 0.02 + 3 * 0.05, the
\* value the same transcript has in a first debate with empty memory
C14_Witness ==
    /\ pc = "returned"
    /\ call = 2
    /\ Len(mid_term_memory) > 0
    /\ Len(debate_results) = 3
    /\ \A i \in 1..3 : debate_results[i].arguments = TextBullish
    /\ confidence = 630


(* C15: after a completed round the summary is computed and promoted only  *)
(* if the debate continues to a further round.  When the loop has ended    *)
(* after round N, by convergence or because N is the third round, the      *)
(* summarizer was called for rounds 1..N-1 and not for round N, and both   *)
(* memories are as the memory step of round N-1 left them.                 *)
C15_SummaryOnlyIfContinuing ==
    (pc \in {"synthesize", "returned"} /\ ~gen_failed) =>
       LET N == Len(debate_results) \div Len(roles) IN
       /\ summ_calls = N - 1
       /\ mid_term_memory = [r \in 1..(N - 1) |-> OwnSummary(r)]
       /\ short_term_memory = (IF N = 1 THEN <<>> ELSE <<OwnSummary(N - 1)>>)


\* the transcript entries of the rounds before round r
EarlierRounds(r) ==
    LET Keep(e) == e.round < r IN SelectSeq(debate_results, Keep)

(* C16: within one round all three personas receive the same shared        *)
(* context.  The mid-term memory text, the short-term memory text and the  *)
(* previous-arguments text of the prompts of round r are identical; the    *)
(* previous-arguments text is the sentinel "No previous arguments." in     *)
(* round 1 and otherwise the formatted entries of rounds 1..r-1, all of    *)
(* them and no others; and no prompt contains an argument of round r.      *)
C16_SharedRoundContext ==
    Len(round_prompts) > 0 =>
       LET first == round_prompts[1]
           r == first.round
           earlier == EarlierRounds(r)
       IN  /\ \A i \in 1..Len(round_prompts) :
                 /\ round_prompts[i].round = r
                 /\ round_prompts[i].mid_term = first.mid_term
                 /\ round_prompts[i].short_term = first.short_term
                 /\ round_prompts[i].previous = first.previous
           /\ r = 1 => first.previous = "No previous arguments."
           /\ r > 1 =>
                 /\ Len(earlier) = Len(roles) * (r - 1)
                 /\ first.previous = _format_previous_rounds(earlier)
           /\ ~Contains(first.previous, "Round " \o Str(r))

\* the three prompts of round 2 have been built: each shows the round-1
\* summary in both memory texts and the three round-1 arguments
C16_Witness ==
    /\ pc = "check"
    /\ round_num = 1
    /\ Len(round_prompts) = 3
    /\ round_prompts[3].mid_term = OwnSummary(1)
    /\ round_prompts[3].short_term = OwnSummary(1)
    /\ Contains(round_prompts[3].previous, FormatEntry(debate_results[3]))
    /\ debate_results[1].arguments = TextBullish
    /\ debate_results[2].arguments = TextBearish


\* what a returned debate of N rounds has done
C17_Returned ==
    /\ pc = "returned" =>
          LET t == result[1].debate_rounds
              N == Len(t) \div Len(roles)
          IN  /\ gen_calls = 3 * N
              /\ synth_calls = 1
              /\ t = debate_results
              /\ synth_prompt[1].history = _format_previous_rounds(t)
              /\ result[1].confidence_score = ClaimScore(t, market_data)
              /\ confidence = result[1].confidence_score
    /\ pc # "returned" => confidence = NoScore

\* the order of the calls within one invocation
C17_Order ==
    /\ synth_calls' > synth_calls =>
          /\ pc = "synthesize"
          /\ \A r \in 1..(Len(debate_results) \div Len(roles)) :
                RoundComplete(debate_results, r)
          /\ gen_calls = Len(debate_results)
          /\ extracted = _extract_stances(RoundOf(debate_results,
                                                  Len(debate_results) \div Len(roles)))
          /\ summ_calls = Cardinality(OpenRounds(debate_results))
          /\ gen_calls' = gen_calls /\ summ_calls' = summ_calls
    /\ (gen_calls' > gen_calls \/ summ_calls' > summ_calls) => synth_calls = 0
    /\ (call' = call /\ confidence' # confidence) =>
          (confidence = NoScore /\ synth_calls' = synth_calls + 1)

(* C17: in every successful analyze of a debate with N rounds the text     *)
(* generator is invoked exactly 3*N times for round arguments and then     *)
(* exactly once for synthesis.  The synthesis call comes after the last    *)
(* round's stance check and memory step and after every round-argument     *)
(* call; the confidence score is computed once, when synthesis has         *)
(* returned; and the synthesis prompt, the score and the returned          *)
(* debate_rounds all use the same final transcript.                        *)
C17_CallCounts ==
    /\ []C17_Returned
    /\ [][C17_Order]_vars

\* a debate of two rounds returned: six argument calls, one memory step,
\* one synthesis call
C17_Witness ==
    /\ pc = "returned"
    /\ Len(result[1].debate_rounds) = 6
    /\ gen_calls = 6
    /\ summ_calls = 1
    /\ synth_calls = 1
    /\ ~gen_failed


\* a round after the first is under way only with the summary of the round
\* before it as the newest memory, and a failed invocation has no result
C18_NeverStale ==
    /\ (pc \in {"generate", "check"} /\ round_num >= 1) =>
          /\ Len(mid_term_memory) >= 1
          /\ mid_term_memory[Len(mid_term_memory)] = OwnSummary(round_num)
          /\ short_term_memory = <<OwnSummary(round_num)>>
    /\ pc = "failed" => result = <<>>

\* a memory step that does not store the round's summary is a failure that
\* leaves analyze at once; nothing follows a failure but a new request
C18_Step ==
    /\ (pc = "summarize" /\ mid_term_memory' = mid_term_memory) =>
          /\ pc' = "failed"
          /\ result' = <<>>
          /\ gen_calls' = gen_calls
          /\ synth_calls' = synth_calls
          /\ short_term_memory' = short_term_memory
    /\ pc = "failed" => call' = call + 1

(* C18: if memory summarization fails after a non-converging round r, the  *)
(* failure propagates: no persona generation for round r+1 and no          *)
(* synthesis takes place, analyze returns no result, and the debate never  *)
(* continues with memory that lacks round r's summary.                     *)
C18_SummarizerFailurePropagates ==
    /\ []C18_NeverStale
    /\ [][C18_Step]_vars

\* the summarizer failed after round 2: every generator call had returned
\* a stance, round 1 was summarised, no synthesis was attempted
C18_Witness ==
    /\ pc = "failed"
    /\ ~gen_failed
    /\ gen_calls = 6
    /\ summ_calls = 2
    /\ synth_calls = 0
    /\ Len(mid_term_memory) = 1
    /\ result = <<>>


(* C19: across any sequence of analyze calls on one instance, wherever a   *)
(* persona prompt is built or synthesis runs, short-term memory holds at   *)
(* most one summary, it is empty exactly when mid-term memory is empty,    *)
(* and when it is not empty its single summary is the last entry of mid-   *)
(* term memory.                                                            *)
C19_MemoriesInStep ==
    pc \in {"generate", "synthesize", "returned"} =>
       /\ Len(short_term_memory) <= 1
       /\ (Len(short_term_memory) = 0) <=> (Len(mid_term_memory) = 0)
       /\ Len(short_term_memory) = 1 =>
             short_term_memory[1] = mid_term_memory[Len(mid_term_memory)]

\* the third round of a second debate on the instance is being generated:
\* mid-term memory holds four summaries, short-term memory the newest
C19_Witness ==
    /\ call = 2
    /\ pc = "generate"
    /\ round_num = 2
    /\ Len(mid_term_memory) = 4
    /\ short_term_memory = <<OwnSummary(2)>>
    /\ mid_term_memory[4] = OwnSummary(2)


(* C20: the final clamp of the confidence score never changes the value.   *)
(* For every trend and every combination of scored phrases in the three    *)
(* persona texts the unclamped value, 0.5 + trend adjustment + 0.05 *      *)
(* (agreements - disagreements) + moving-average bonus, already lies       *)
(* between 0.15 and 0.93 (150 and 930 thousandths), the score returned is  *)
(* that value, and scores of exactly 0.0 or 1.0 are unreachable.  The      *)
(* score is the clamped value, and a clamped value strictly between the    *)
(* clamp's limits 0 and 1000 is the unclamped value itself.                *)
C20_ClampNeverActs ==
    pc = "scored" =>
       /\ confidence >= 150 /\ confidence <= 930
       /\ confidence # 0 /\ confidence # 1000

\* the upper limit is attained: trend up, all three personas with "mild
\* increase" and "low risk" (six agreements) and none with "high risk", two
\* of them with the moving-average phrase, 0.5 + 0.1 + 0.3 + 0.03 = 0.93
C20_Witness ==
    /\ pc = "scored"
    /\ DictGet(market_data, "trend", "flat") = "up"
    /\ PhrasesOf(debate_results, "fundamental") = {MildIncrease, LowRisk, MovingAverage}
    /\ PhrasesOf(debate_results, "technical") = {MildIncrease, LowRisk, MovingAverage}
    /\ PhrasesOf(debate_results, "risk") = {MildIncrease, LowRisk}
    /\ confidence = 930

====
